---- MODULE Spec2Model ----
(***************************************************************************)
(* Model of filtering/process_models.py: the SE_2(3) IMU process models    *)
(* CoupledIMUKinematicModel, PreintegratedProcessModel and                 *)
(* NullOnUpdateCoupledIMU.                                                 *)
(*                                                                         *)
(* Numbers.  Tensors are matrices over the integers, indexed from 0 as in  *)
(* the source: M[i][j].  The batch dimension is 1.  Inputs are drawn from  *)
(* a lattice on which the arithmetic of the source is exact:               *)
(*   - angles are counted in eighth turns about a coordinate axis and dt   *)
(*     is an even integer, so that dt * omega is a whole number of quarter *)
(*     turns, SO3.Exp is a signed permutation matrix and dt**2 / 2 is an   *)
(*     integer;                                                            *)
(*   - Q_c is a multiple of every positive dt, so that Q_c / dt is exact;   *)
(*   - a sample either rotates (acc = 0) or accelerates (omega = 0), so     *)
(*     that U, G and the propagated state carry no transcendental factor.   *)
(* The library maps SO3.left_jacobian, SO3.left_jacobian_inv,               *)
(* SE23.left_jacobian and form_N_matrix are the identity at the zero        *)
(* rotation.  At a quarter or a half turn their entries are multiples of    *)
(* 2/pi, pi/4, pi/2 and 4/pi^2: no tensor of integers holds them, and the   *)
(* model defines them at the zero rotation only.  A rotating sample is      *)
(* therefore handed to the calls where they are applied to the zero vector  *)
(* (generate_u, generate_nu, evaluate of the single-step models), and the   *)
(* Jacobians and the preintegration are run on accelerating samples; the    *)
(* rotation they see is the one of the state x (SE23.adjoint).              *)
(***************************************************************************)
EXTENDS Integers, Sequences, FiniteSets, TLC

(***************************************************************************)
(* Matrix algebra (torch operators @, transpose, cat, eye, zeros).         *)
(***************************************************************************)
NRows(A) == Cardinality(DOMAIN A)
NCols(A) == IF NRows(A) = 0 THEN 0 ELSE Cardinality(DOMAIN A[0])

\* row and column indices start at 0, as in torch
Idx(n) == 0..(n - 1)

\* A tensor holds its entries: they are computed when it is built.  An
\* operation on tensors evaluates its operands first, as python evaluates
\* the arguments of a call before the call: the conditions A = A below fix
\* that order and are true of every tensor.
Tensor(M) == IF M = M THEN M ELSE M

Zeros(r, c) == Tensor([i \in Idx(r) |-> [j \in Idx(c) |-> 0]])
Eye(n) == Tensor([i \in Idx(n) |-> [j \in Idx(n) |-> IF i = j THEN 1 ELSE 0]])

\* torch "@": defined only when the inner dimensions agree.
Compatible(A, B) == NCols(A) = NRows(B)
\* the sum of A[i][k] * B[k][j] for k in lo..hi
RECURSIVE Dot(_, _, _, _, _, _)
Dot(A, B, i, j, lo, hi) ==
    IF lo > hi THEN 0
    ELSE IF lo = hi THEN A[i][lo] * B[lo][j]
    ELSE LET mid == (lo + hi) \div 2
         IN  Dot(A, B, i, j, lo, mid) + Dot(A, B, i, j, mid + 1, hi)
MatMul(A, B) ==
    IF A = A /\ B = B
    THEN Tensor([i \in Idx(NRows(A)) |-> [j \in Idx(NCols(B)) |->
             Dot(A, B, i, j, 0, NRows(B) - 1)]])
    ELSE A

Transpose(A) ==
    IF A = A
    THEN Tensor([i \in Idx(NCols(A)) |-> [j \in Idx(NRows(A)) |->
             A[j][i]]])
    ELSE A
MatAdd(A, B) ==
    IF A = A /\ B = B
    THEN Tensor([i \in Idx(NRows(A)) |-> [j \in Idx(NCols(A)) |->
             A[i][j] + B[i][j]]])
    ELSE A
MatSub(A, B) ==
    IF A = A /\ B = B
    THEN Tensor([i \in Idx(NRows(A)) |-> [j \in Idx(NCols(A)) |->
             A[i][j] - B[i][j]]])
    ELSE A
Scale(s, A) ==
    IF A = A
    THEN Tensor([i \in Idx(NRows(A)) |-> [j \in Idx(NCols(A)) |->
             s * A[i][j]]])
    ELSE A
Neg(A) ==
    IF A = A
    THEN Tensor([i \in Idx(NRows(A)) |-> [j \in Idx(NCols(A)) |->
             -A[i][j]]])
    ELSE A
\* exact division of every entry by d > 0
DivBy(A, d) ==
    IF A = A
    THEN Tensor([i \in Idx(NRows(A)) |-> [j \in Idx(NCols(A)) |->
             A[i][j] \div d]])
    ELSE A

\* torch.cat(..., dim=2) and torch.cat(..., dim=1) of two blocks
CatCols(A, B) ==
    IF A = A /\ B = B
    THEN Tensor([i \in Idx(NRows(A)) |-> [j \in Idx(NCols(A) + NCols(B)) |->
             IF j < NCols(A) THEN A[i][j] ELSE B[i][j - NCols(A)]]])
    ELSE A
CatRows(A, B) ==
    IF A = A /\ B = B
    THEN Tensor([i \in Idx(NRows(A) + NRows(B)) |-> [j \in Idx(NCols(A)) |->
             IF i < NRows(A) THEN A[i][j] ELSE B[i - NRows(A)][j]]])
    ELSE A
\* torch.cat of three blocks
CatCols3(A, B, C) ==
    IF A = A /\ B = B /\ C = C
    THEN Tensor([i \in Idx(NRows(A)) |->
             [j \in Idx(NCols(A) + NCols(B) + NCols(C)) |->
             IF j < NCols(A) THEN A[i][j]
             ELSE IF j < NCols(A) + NCols(B) THEN B[i][j - NCols(A)]
             ELSE C[i][j - NCols(A) - NCols(B)]]])
    ELSE A
CatRows3(A, B, C) ==
    IF A = A /\ B = B /\ C = C
    THEN Tensor([i \in Idx(NRows(A) + NRows(B) + NRows(C)) |->
             [j \in Idx(NCols(A)) |->
             IF i < NRows(A) THEN A[i][j]
             ELSE IF i < NRows(A) + NRows(B) THEN B[i - NRows(A)][j]
             ELSE C[i - NRows(A) - NRows(B)][j]]])
    ELSE A

\* M[r0:r1, c0:c1]
Slice(M, r0, r1, c0, c1) ==
    IF M = M
    THEN Tensor([i \in Idx(r1 - r0) |-> [j \in Idx(c1 - c0) |->
             M[r0 + i][c0 + j]]])
    ELSE M
\* M[r0:r0+rows(B), c0:c0+cols(B)] = B
SetBlock(M, r0, c0, B) ==
    IF M = M /\ B = B
    THEN Tensor([i \in Idx(NRows(M)) |-> [j \in Idx(NCols(M)) |->
             IF /\ r0 <= i /\ i < r0 + NRows(B)
             /\ c0 <= j /\ j < c0 + NCols(B)
             THEN B[i - r0][j - c0] ELSE M[i][j]]])
    ELSE M

Vec3(a, b, c) ==
    Tensor([i \in Idx(3) |-> [j \in Idx(1) |->
            IF i = 0 THEN a ELSE IF i = 1 THEN b ELSE c]])
ZeroVec3 == Vec3(0, 0, 0)

(***************************************************************************)
(* Lie group primitives of the math library (pymlg SO3, SE23) and          *)
(* filtering_utils.form_N_matrix.                                          *)
(***************************************************************************)
\* SO3.wedge: the skew-symmetric matrix of a 3-vector
Wedge(p) ==
    IF p = p
    THEN Tensor([i \in Idx(3) |-> [j \in Idx(3) |->
             IF i = j THEN 0
             ELSE IF (j - i) % 3 = 1 THEN -p[3 - i - j][0]
             ELSE p[3 - i - j][0]]])
    ELSE p

\* cosine and sine of k quarter turns
Cos4(k) == CASE k % 4 = 0 -> 1 [] k % 4 = 1 -> 0 [] k % 4 = 2 -> -1 [] OTHER -> 0
Sin4(k) == CASE k % 4 = 0 -> 0 [] k % 4 = 1 -> 1 [] k % 4 = 2 -> 0 [] OTHER -> -1

\* a lattice rotation vector p (eighth turns, one component not 0 at most):
\* its number of quarter turns and its axis
Turns(p) == (p[0][0] \div 2) + (p[1][0] \div 2) + (p[2][0] \div 2)
Axis(p) ==
    IF p = p
    THEN Tensor([i \in Idx(3) |-> [j \in Idx(1) |->
             IF p[i][0] # 0 THEN 1 ELSE 0]])
    ELSE p

\* SO3.Exp on the lattice (Rodrigues' formula, exact for quarter turns):
\* cos(t) I + (1 - cos(t)) a a^T + sin(t) a^
SO3Exp(p) ==
    LET a == Axis(p)
        k == Turns(p)
        W == Wedge(a)
    IN  IF a = a /\ k = k /\ W = W
        THEN Tensor([i \in Idx(3) |-> [j \in Idx(3) |->
                 Cos4(k) * (IF i = j THEN 1 ELSE 0)
                     + (1 - Cos4(k)) * a[i][0] * a[j][0]
                     + Sin4(k) * W[i][j]]])
        ELSE p

\* SO3.left_jacobian,
\*   (sin(t)/t) I + (1 - sin(t)/t) a a^T + ((1 - cos(t))/t) a^ :
\* the identity at the zero rotation.  At a quarter turn sin(t)/t and
\* (1 - cos(t))/t are 2/pi: the value is no tensor of integers, and the
\* operator has no value there.
SO3LeftJacobian(p) == CASE p = ZeroVec3 -> Eye(3)

\* SO3.left_jacobian_inv,
\*   (t/2) cot(t/2) I + (1 - (t/2) cot(t/2)) a a^T - (t/2) a^ :
\* the identity at the zero rotation, no tensor of integers elsewhere.
SO3LeftJacobianInv(p) == CASE p = ZeroVec3 -> Eye(3)

\* filtering_utils.form_N_matrix: the second-order position term; the
\* identity at the zero rotation, no tensor of integers elsewhere.
FormNMatrix(p) == CASE p = ZeroVec3 -> Eye(3)

\* A @ w for a column w of 3 rows: the product with the zero column is the
\* zero column, whatever finite entries A holds
MatVec(A, w) == IF w = ZeroVec3 THEN ZeroVec3 ELSE MatMul(A, w)

\* SE23.to_components
CompC(X) == Slice(X, 0, 3, 0, 3)
CompV(X) == Slice(X, 0, 3, 3, 4)
CompR(X) == Slice(X, 0, 3, 4, 5)

\* SE23.adjoint: [[C,0,0],[v^ C, C, 0],[r^ C, 0, C]]
SE23Adjoint(X) ==
    LET C == CompC(X)
        Z == Zeros(3, 3)
    IN  CatRows3(CatCols3(C, Z, Z),
                 CatCols3(MatMul(Wedge(CompV(X)), C), C, Z),
                 CatCols3(MatMul(Wedge(CompR(X)), C), Z, C))

\* SE23.left_jacobian of xi = (phi, xi_v, xi_r): the identity at the zero
\* rotation (the library's small-angle branch); otherwise
\* [[J,0,0],[Q_v,J,0],[Q_r,0,J]] with J the SO(3) left Jacobian and Q the
\* matrices Q(phi, xi_v), Q(phi, xi_r), no tensor of integers.
SE23LeftJacobian(xi) == CASE Slice(xi, 0, 3, 0, 1) = ZeroVec3 -> Eye(9)

(***************************************************************************)
(* CoupledIMUKinematicModel: the single-step model.                        *)
(* An input u is a record [omega, acc] of two 3-vectors (torch [1, 2, 3]). *)
(***************************************************************************)
\* dt**2 / 2
HalfSq(dt) == (dt * dt) \div 2

\* the rows [0,0,0,1,c / 0,0,0,0,1] shared by U, G and their inverses
LowerBlock(c) ==
    Tensor([i \in Idx(2) |-> [j \in Idx(5) |->
        IF j = i + 3 THEN 1 ELSE IF i = 0 /\ j = 4 THEN c ELSE 0]])

\* a faulty variant: the position column scaled by dt**2, not dt**2 / 2
generate_u_FullSq(u, dt) ==
    LET phi == Scale(dt, u.omega)
        u_00 == SO3Exp(phi)
        u_01 == Scale(dt, MatVec(SO3LeftJacobian(phi), u.acc))
        u_02 == Scale(dt * dt, MatVec(FormNMatrix(phi), u.acc))
    IN  CatRows(CatCols3(u_00, u_01, u_02), LowerBlock(dt))

generate_u(u, dt) ==
    LET phi == Scale(dt, u.omega)
        u_00 == SO3Exp(phi)
        u_01 == Scale(dt, MatVec(SO3LeftJacobian(phi), u.acc))
        u_02 == Scale(HalfSq(dt), MatVec(FormNMatrix(phi), u.acc))
    IN  CatRows(CatCols3(u_00, u_01, u_02), LowerBlock(dt))

\* a faulty variant: the time entry of G with the sign of U's
generate_g_PlusDt(u, dt, g) ==
    LET u_00 == Eye(3)
        u_01 == Scale(dt, g)
        u_02 == Scale(-HalfSq(dt), g)
    IN  CatRows(CatCols3(u_00, u_01, u_02), LowerBlock(dt))

generate_g(u, dt, g) ==
    LET u_00 == Eye(3)
        u_01 == Scale(dt, g)
        u_02 == Scale(-HalfSq(dt), g)
    IN  CatRows(CatCols3(u_00, u_01, u_02), LowerBlock(-dt))

generate_nu(u, dt) ==
    LET phi == Scale(dt, u.omega)
        nu_0 == phi
        nu_1 == Scale(dt, u.acc)
        nu_2 == Scale(HalfSq(dt),
                      MatVec(MatMul(SO3LeftJacobianInv(phi), FormNMatrix(phi)), u.acc))
    IN  CatRows3(nu_0, nu_1, nu_2)

\* upsilon_30_navlie = -0.5 (dt^2/2) ((1/360) dt^3 W - (1/6) dt acc^)
\*                   = (60 dt^3 acc^ - dt^5 W) / 1440
generate_upsilon(u, dt) ==
    LET phi == Scale(dt, u.omega)
        Om == Wedge(phi)
        OmOm == MatMul(Om, Om)
        W == MatAdd(MatAdd(MatMul(OmOm, Wedge(u.acc)), MatMul(Om, Wedge(MatMul(Om, u.acc)))),
                    Wedge(MatMul(OmOm, u.acc)))
        batch_dt == Scale(dt, Eye(3))
        upsilon_30_navlie ==
            DivBy(MatSub(Scale(60 * dt * dt * dt, Wedge(u.acc)),
                         Scale(dt * dt * dt * dt * dt, W)), 1440)
        upsilon_31 ==
            Scale(HalfSq(dt), MatMul(SO3LeftJacobianInv(phi), FormNMatrix(phi)))
        c0 == CatRows3(batch_dt, Zeros(3, 3), upsilon_30_navlie)
        c1 == CatRows3(Zeros(3, 3), batch_dt, upsilon_31)
    IN  CatCols(c0, c1)

\* a faulty variant: the adjoint without the scalar block -c C
ie3_adj_NoScalar(X) ==
    LET C == CompC(X)
        v == CompV(X)
        r == CompR(X)
        c == X[3][4]
        Z == Zeros(3, 3)
        ad_20 == Neg(MatMul(Wedge(MatSub(Scale(c, v), r)), C))
        ad_10 == MatMul(Wedge(v), C)
    IN  CatRows3(CatCols3(C, Z, Z),
                 CatCols3(ad_10, C, Z),
                 CatCols3(ad_20, Z, C))

ie3_adj(X) ==
    LET C == CompC(X)
        v == CompV(X)
        r == CompR(X)
        c == X[3][4]
        Z == Zeros(3, 3)
        ad_20 == Neg(MatMul(Wedge(MatSub(Scale(c, v), r)), C))
        ad_10 == MatMul(Wedge(v), C)
    IN  CatRows3(CatCols3(C, Z, Z),
                 CatCols3(ad_10, C, Z),
                 CatCols3(ad_20, Scale(-c, C), C))

\* a faulty variant: the inverse without the product of the scalar c and v
ie3_inv_NoScalar(X) ==
    LET C == CompC(X)
        v == CompV(X)
        r == CompR(X)
        c == X[3][4]
        Ct == Transpose(C)
        u_00 == Ct
        u_01 == Neg(MatMul(Ct, v))
        u_02 == MatMul(Ct, Neg(r))
    IN  CatRows(CatCols3(u_00, u_01, u_02), LowerBlock(-c))

ie3_inv(X) ==
    LET C == CompC(X)
        v == CompV(X)
        r == CompR(X)
        c == X[3][4]
        Ct == Transpose(C)
        u_00 == Ct
        u_01 == Neg(MatMul(Ct, v))
        u_02 == MatMul(Ct, MatSub(Scale(c, v), r))
    IN  CatRows(CatCols3(u_00, u_01, u_02), LowerBlock(-c))

generate_u_inverse(u, dt) == ie3_inv(generate_u(u, dt))

input_jacobian_pose(u, dt) ==
    MatMul(SE23LeftJacobian(Neg(generate_nu(u, dt))), generate_upsilon(u, dt))

\* CoupledIMUKinematicModel.evaluate: G @ x @ U
CoupledEvaluate(g, x, u, dt) ==
    MatMul(MatMul(generate_g(u, dt, g), x), generate_u(u, dt))

CoupledStateJacobian(pert, g, x, u, dt) ==
    LET r0 == IF pert = "right"
              THEN CatCols(ie3_adj(generate_u_inverse(u, dt)),
                           Neg(input_jacobian_pose(u, dt)))
              ELSE CatCols(ie3_adj(generate_g(u, dt, g)),
                           MatMul(Neg(SE23Adjoint(x)), input_jacobian_pose(u, dt)))
        r1 == CatCols(Zeros(6, 9), Eye(6))
    IN  CatRows(r0, r1)

CoupledInputJacobian(pert, x, u, dt) ==
    LET r0 == IF pert = "right"
              THEN CatCols(input_jacobian_pose(u, dt), Zeros(9, 6))
              ELSE CatCols(MatMul(SE23Adjoint(x), input_jacobian_pose(u, dt)),
                           Zeros(9, 6))
        r1 == CatCols(Zeros(6, 6), Scale(dt, Eye(6)))
    IN  CatRows(r0, r1)

\* Q_c / dt, the discrete-time noise covariance (a float division in the
\* source: exact here for dt > 0, not finite for dt = 0)
QcOverDt(Qc, dt) == DivBy(Qc, dt)

CoupledCovariance(pert, Qc, x, u, dt) ==
    LET Lk == CoupledInputJacobian(pert, x, u, dt)
    IN  MatMul(MatMul(Lk, QcOverDt(Qc, dt)), Transpose(Lk))

(***************************************************************************)
(* PreintegratedProcessModel: the steps of evaluate.                       *)
(***************************************************************************)
\* a faulty variant: the propagation without the gravity element G
PreEvaluateState_NoG(g, x, u, dt) == MatMul(x, generate_u(u, dt))

\* x = G @ x @ U
PreEvaluateState(g, x, u, dt) ==
    MatMul(MatMul(generate_g(u, dt, g), x), generate_u(u, dt))

\* a faulty variant: the new step multiplied on the left
StepU_ij_Left(Uij, U) == MatMul(U, Uij)

\* self.U_ij = self.U_ij @ U
StepU_ij(Uij, U) == MatMul(Uij, U)

\* self.G_ij = G @ self.G_ij
StepG_ij(Gij, G) == MatMul(G, Gij)

\* self.B_ij = A @ self.B_ij - L
StepB_ij(Bij, A, L) == MatSub(MatMul(A, Bij), L)

\* A_full: [[A, -L], [0, I]]
AFull(A, L) ==
    SetBlock(SetBlock(SetBlock(Zeros(15, 15), 9, 9, Eye(6)), 0, 0, A),
             0, 9, Neg(L))

\* L_full: [[L, 0], [0, dt I]]
LFull(L, dt) ==
    SetBlock(SetBlock(Zeros(15, 12), 0, 0, L), 9, 6, Scale(dt, Eye(6)))

\* self.Q_ij = A_full Q_ij A_full^T + L_full (Q_c / dt) L_full^T   (dt # 0)
StepQ_ij(Qij, Qc, A, L, dt) ==
    MatAdd(MatMul(MatMul(AFull(A, L), Qij), Transpose(AFull(A, L))),
           MatMul(MatMul(LFull(L, dt), QcOverDt(Qc, dt)), Transpose(LFull(L, dt))))

\* the complete state Jacobian, from the composite increments and the
\* propagated state xn
FullA_ij(pert, Uij, Gij, Bij, xn) ==
    LET base == SetBlock(Zeros(15, 15), 9, 9, Eye(6))
    IN  IF pert = "right"
        THEN SetBlock(SetBlock(base, 0, 0, ie3_adj(ie3_inv(Uij))), 0, 9, Bij)
        ELSE SetBlock(SetBlock(base, 0, 0, ie3_adj(Gij)),
                      0, 9, MatMul(SE23Adjoint(xn), Bij))

\* the complete noise Jacobian
FullL_ij(pert, xn) ==
    IF pert = "right" THEN Eye(15)
    ELSE SetBlock(Eye(15), 0, 0, SE23Adjoint(xn))

(***************************************************************************)
(* Inputs.                                                                 *)
(***************************************************************************)
\* the number of evaluate and reset calls of a run
MaxOps == 3
\* the number of evaluate calls of a run of the null-gated model
MaxNullOps == 2

\* the perturbation argument: the two conventions and a value that is none
Perturbations == {"right", "left", "up"}
\* more values that are no convention, for the constructors alone
PerturbationArgs == Perturbations \cup {"Right", ""}

\* the constructors' check: raise ValueError when
\* (perturbation != "right") and (perturbation != "left")
\* a faulty variant: a constructor that checks nothing
PreValidPerturbation_Any(p) == TRUE

PreValidPerturbation(p) == ~((p # "right") /\ (p # "left"))
CoupledValidPerturbation(p) == ~((p # "right") /\ (p # "left"))

\* IMU samples (u, dt) without rotation: two accelerating ones along
\* different axes, and one with a zero time step
Samples ==
    { [u |-> [omega |-> Vec3(0, 0, 0), acc |-> Vec3(0, 0, 3)], dt |-> 2],
      [u |-> [omega |-> Vec3(0, 0, 0), acc |-> Vec3(3, 0, 0)], dt |-> 4],
      [u |-> [omega |-> Vec3(0, 0, 0), acc |-> Vec3(3, 0, 0)], dt |-> 0] }

\* the samples with dt > 0
PositiveSamples == {s \in Samples : s.dt > 0}

\* rotating IMU samples (acc = 0): a quarter turn about z and a half turn
\* about x
RotatingSamples ==
    { [u |-> [omega |-> Vec3(0, 0, 1), acc |-> Vec3(0, 0, 0)], dt |-> 2],
      [u |-> [omega |-> Vec3(1, 0, 0), acc |-> Vec3(0, 0, 0)], dt |-> 4] }

\* the continuous-time noise density (12 x 12, diagonal)
QcValue ==
    Tensor([i \in Idx(12) |-> [j \in Idx(12) |->
            IF i = j THEN 4 * (1 + (i \div 6)) ELSE 0]])

\* the gravity vector
GravityValue == Vec3(0, 0, -3)
\* more constructor arguments, for the constructors alone
QcArgs == {QcValue, Scale(2, QcValue)}
GravityArgs == {GravityValue, Vec3(0, 0, 3)}

\* the initial state: a quarter turn about x, v = (1,0,0), r = (0,2,0)
X0 ==
    CatRows(CatCols3(SO3Exp(Vec3(2, 0, 0)), Vec3(1, 0, 0), Vec3(0, 2, 0)),
            LowerBlock(0))

\* covariances handed to reset_incremental_jacobians
ResetCovariances ==
    { Eye(15),
      Tensor([i \in Idx(15) |-> [j \in Idx(15) |->
        IF i = j THEN 2 ELSE IF i + j = 14 THEN 1 ELSE 0]]) }

\* a field of an object that has not been constructed
None == << >>

(***************************************************************************)
(* State.                                                                  *)
(***************************************************************************)
VARIABLES
    perturbation, Q_c, g_a,     \* the constructor arguments / fields
    status,                     \* per class: "unbuilt", "ready", "ValueError"
    U_ij, G_ij, B_ij, Q_ij,     \* PreintegratedProcessModel: increments
    Q_nan,                      \* Q_ij holds non-finite entries (Q_c / 0)
    P_i, P_j, A_ij, L_ij,       \* PreintegratedProcessModel: the rest
    x,                          \* the state propagated by the preintegrated model
    x_single,                   \* the state propagated by the single-step model
    hist,                       \* the evaluate calls since the last reset
    marker,                     \* NullOnUpdateCoupledIMU.marker
    last,                       \* the last call and what it returned
    nops,                       \* evaluate and reset calls so far
    run_filter                  \* the locals of run_filter, once it runs

params == <<perturbation, Q_c, g_a>>
pre_vars == <<U_ij, G_ij, B_ij, Q_ij, Q_nan, P_i, P_j, A_ij, L_ij>>
vars == <<perturbation, Q_c, g_a, status, U_ij, G_ij, B_ij, Q_ij, Q_nan,
          P_i, P_j, A_ij, L_ij, x, x_single, hist, marker, last, nops,
          run_filter>>

Classes == {"PreintegratedProcessModel", "CoupledIMUKinematicModel",
            "NullOnUpdateCoupledIMU"}

InitWith(perts, Qcs, gs) ==
    /\ perturbation \in perts
    /\ Q_c \in Qcs
    /\ g_a \in gs
    /\ status = [c \in Classes |-> "unbuilt"]
    /\ U_ij = None /\ G_ij = None /\ B_ij = None /\ Q_ij = None
    /\ Q_nan = FALSE
    /\ P_i = None /\ P_j = None /\ A_ij = None /\ L_ij = None
    /\ x = X0
    /\ x_single = X0
    /\ hist = << >>
    /\ marker = None
    /\ last = [op |-> "none"]
    /\ nops = 0
    /\ run_filter = None

Init == InitWith(Perturbations, {QcValue}, {GravityValue})

(***************************************************************************)
(* Construction.                                                           *)
(***************************************************************************)
\* PreintegratedProcessModel.__init__
NewPreintegrated ==
    /\ status["PreintegratedProcessModel"] = "unbuilt"
    /\ IF PreValidPerturbation(perturbation)
       THEN /\ status' = [status EXCEPT !["PreintegratedProcessModel"] = "ready"]
            /\ U_ij' = Eye(5)
            /\ G_ij' = Eye(5)
            /\ B_ij' = Zeros(9, 6)
            /\ Q_ij' = Zeros(15, 15)
            /\ P_i' = Zeros(15, 15)
            /\ P_j' = Zeros(15, 15)
            /\ A_ij' = Zeros(15, 15)
            /\ L_ij' = Zeros(15, 12)
       ELSE /\ status' = [status EXCEPT !["PreintegratedProcessModel"] = "ValueError"]
            /\ UNCHANGED <<U_ij, G_ij, B_ij, Q_ij, P_i, P_j, A_ij, L_ij>>
    /\ last' = [op |-> "PreintegratedProcessModel.__init__"]
    /\ UNCHANGED <<params, run_filter, Q_nan, x, x_single, hist, marker, nops>>

\* CoupledIMUKinematicModel.__init__
NewCoupled ==
    /\ status["CoupledIMUKinematicModel"] = "unbuilt"
    /\ status' = [status EXCEPT !["CoupledIMUKinematicModel"] =
                     IF CoupledValidPerturbation(perturbation) THEN "ready" ELSE "ValueError"]
    /\ last' = [op |-> "CoupledIMUKinematicModel.__init__"]
    /\ UNCHANGED <<params, run_filter, pre_vars, x, x_single, hist, marker, nops>>

\* NullOnUpdateCoupledIMU.__init__: the base constructor, then the marker
NewNull ==
    /\ status["NullOnUpdateCoupledIMU"] = "unbuilt"
    /\ IF CoupledValidPerturbation(perturbation)
       THEN /\ status' = [status EXCEPT !["NullOnUpdateCoupledIMU"] = "ready"]
            /\ marker' = [i \in 0..4 |-> 0]
       ELSE /\ status' = [status EXCEPT !["NullOnUpdateCoupledIMU"] = "ValueError"]
            /\ UNCHANGED marker
    /\ last' = [op |-> "NullOnUpdateCoupledIMU.__init__"]
    /\ UNCHANGED <<params, run_filter, pre_vars, x, x_single, hist, nops>>

(***************************************************************************)
(* PreintegratedProcessModel: the operations.  A run feeds the same        *)
(* samples to the preintegrated model and to the single-step model.        *)
(***************************************************************************)
Ready ==
    /\ status["PreintegratedProcessModel"] = "ready"
    /\ status["CoupledIMUKinematicModel"] = "ready"

\* PreintegratedProcessModel.evaluate(x, u, dt), beside
\* CoupledIMUKinematicModel.evaluate(x_single, u, dt)
Evaluate(s) ==
    LET u == s.u
        dt == s.dt
        U == generate_u(u, dt)
        G == generate_g(u, dt, g_a)
        xn == PreEvaluateState(g_a, x, u, dt)
        A == ie3_adj(ie3_inv(U))
        L == input_jacobian_pose(u, dt)
        Uij == StepU_ij(U_ij, U)
        Gij == StepG_ij(G_ij, G)
        Bij == StepB_ij(B_ij, A, L)
    IN  /\ Ready
        /\ nops < MaxOps
        /\ x' = xn
        /\ U_ij' = Uij
        /\ G_ij' = Gij
        /\ B_ij' = Bij
        /\ IF dt = 0 \/ Q_nan
           THEN Q_nan' = TRUE /\ Q_ij' = Zeros(15, 15)
           ELSE Q_nan' = FALSE /\ Q_ij' = StepQ_ij(Q_ij, Q_c, A, L, dt)
        /\ A_ij' = FullA_ij(perturbation, Uij, Gij, Bij, xn)
        /\ L_ij' = FullL_ij(perturbation, xn)
        /\ x_single' = CoupledEvaluate(g_a, x_single, u, dt)
        /\ hist' = Append(hist, [x |-> x, u |-> u, dt |-> dt])
        /\ last' = [op |-> "evaluate", x |-> x, u |-> u, dt |-> dt, ret |-> xn]
        /\ nops' = nops + 1
        /\ UNCHANGED <<params, run_filter, status, P_i, P_j, marker>>

\* a faulty variant: a reset that forgets the accumulated noise Q_ij
ResetIncrements_StaleQ ==
    [U_ij |-> Eye(5), G_ij |-> Eye(5), B_ij |-> Zeros(9, 6),
     Q_ij |-> Q_ij, Q_nan |-> Q_nan]

\* the increments as reset_incremental_jacobians leaves them
ResetIncrements ==
    [U_ij |-> Eye(5), G_ij |-> Eye(5), B_ij |-> Zeros(9, 6),
     Q_ij |-> Zeros(15, 15), Q_nan |-> FALSE]

\* PreintegratedProcessModel.reset_incremental_jacobians(P)
Reset(P) ==
    /\ Ready
    /\ nops < MaxOps
    /\ U_ij' = ResetIncrements.U_ij
    /\ G_ij' = ResetIncrements.G_ij
    /\ B_ij' = ResetIncrements.B_ij
    /\ Q_ij' = ResetIncrements.Q_ij
    /\ Q_nan' = ResetIncrements.Q_nan
    /\ P_i' = P
    /\ P_j' = P
    /\ hist' = << >>
    /\ last' = [op |-> "reset_incremental_jacobians", P |-> P]
    /\ nops' = nops + 1
    /\ UNCHANGED <<params, run_filter, status, A_ij, L_ij, x, x_single, marker>>

\* the value of covariance(): L_ij @ Q_ij @ L_ij^T
PreCovariance == MatMul(MatMul(L_ij, Q_ij), Transpose(L_ij))

\* PreintegratedProcessModel.state_jacobian(x, u, dt)
StateJacobian ==
    /\ Ready
    /\ last.op \notin {"state_jacobian", "covariance"}
    /\ last' = [op |-> "state_jacobian", ret |-> A_ij, before |-> last.op]
    /\ UNCHANGED <<params, run_filter, status, pre_vars, x, x_single, hist, marker, nops>>

\* PreintegratedProcessModel.covariance(x, u, dt): L_ij @ Q_ij @ L_ij^T,
\* a RuntimeError when the shapes of L_ij and Q_ij do not agree
Covariance ==
    /\ Ready
    /\ last.op \notin {"state_jacobian", "covariance"}
    /\ last' = [op |-> "covariance",
                ret |-> IF ~Compatible(L_ij, Q_ij) THEN "RuntimeError"
                        ELSE IF Q_nan THEN "nan"
                        ELSE PreCovariance,
                before |-> last.op]
    /\ UNCHANGED <<params, run_filter, status, pre_vars, x, x_single, hist, marker, nops>>

Next ==
    \/ NewPreintegrated
    \/ NewCoupled
    \/ \E s \in Samples : Evaluate(s)
    \/ \E P \in ResetCovariances : Reset(P)
    \/ StateJacobian
    \/ Covariance

Spec == Init /\ [][Next]_vars

\* the three constructors alone, over more arguments
InitCtor == InitWith(PerturbationArgs, QcArgs, GravityArgs)
NextCtor == NewPreintegrated \/ NewCoupled \/ NewNull
SpecCtor == InitCtor /\ [][NextCtor]_vars

(***************************************************************************)
(* NullOnUpdateCoupledIMU: the null-gated single-step model.               *)
(***************************************************************************)
\* M[r0:r1, :] = 0 and M[:, c0:c1] = 0
ZeroRows(M, r0, r1) ==
    IF M = M
    THEN Tensor([i \in Idx(NRows(M)) |-> [j \in Idx(NCols(M)) |->
             IF r0 <= i /\ i < r1 THEN 0 ELSE M[i][j]]])
    ELSE M
ZeroCols(M, c0, c1) ==
    IF M = M
    THEN Tensor([i \in Idx(NRows(M)) |-> [j \in Idx(NCols(M)) |->
             IF c0 <= j /\ j < c1 THEN 0 ELSE M[i][j]]])
    ELSE M

\* the truth value of a marker entry
Set(m) == m # 0

\* a faulty variant: the angular gate left out
NullU_NoAngularGate(mk, u, dt) ==
    LET U0 == generate_u(u, dt)
    IN  IF Set(mk[1]) THEN SetBlock(ZeroCols(U0, 3, 5), 3, 3, Eye(2)) ELSE U0

\* the U of NullOnUpdateCoupledIMU.evaluate, after the two gates
NullU(mk, u, dt) ==
    LET U0 == generate_u(u, dt)
        U1 == IF Set(mk[0]) THEN SetBlock(U0, 0, 0, Eye(3)) ELSE U0
    IN  IF Set(mk[1]) THEN SetBlock(ZeroCols(U1, 3, 5), 3, 3, Eye(2)) ELSE U1

\* a faulty variant: no early return: G is applied under marker[1] too
NullEvaluateState_WithG(mk, g, x0, u, dt) ==
    MatMul(MatMul(generate_g(u, dt, g), x0), NullU(mk, u, dt))

\* NullOnUpdateCoupledIMU.evaluate
NullEvaluateState(mk, g, x0, u, dt) ==
    IF Set(mk[1]) THEN MatMul(x0, NullU(mk, u, dt))
    ELSE MatMul(MatMul(generate_g(u, dt, g), x0), NullU(mk, u, dt))

\* NullOnUpdateCoupledIMU.state_jacobian
NullStateJacobianOf(mk, pert, g, x0, u, dt) ==
    LET F0 == CoupledStateJacobian(pert, g, x0, u, dt)
        F1 == IF Set(mk[0]) THEN SetBlock(ZeroRows(F0, 0, 3), 0, 0, Eye(3)) ELSE F0
    IN  IF Set(mk[1])
        THEN SetBlock(SetBlock(ZeroRows(F1, 3, 9), 3, 3, Eye(3)), 6, 6, Eye(3))
        ELSE F1

\* NullOnUpdateCoupledIMU.input_jacobian
NullInputJacobianOf(mk, pert, x0, u, dt) ==
    LET G0 == CoupledInputJacobian(pert, x0, u, dt)
        G1 == IF Set(mk[0]) THEN ZeroRows(G0, 0, 3) ELSE G0
    IN  IF Set(mk[1]) THEN ZeroRows(G1, 3, 9) ELSE G1

NullReady == status["NullOnUpdateCoupledIMU"] = "ready"

\* the owning filter sets marker[0] and marker[1] before a call
SetMarker(m0, m1) ==
    /\ NullReady
    /\ marker' = [marker EXCEPT ![0] = m0, ![1] = m1]
    /\ last' = [op |-> "set_marker"]
    /\ UNCHANGED <<params, run_filter, status, pre_vars, x, x_single, hist, nops>>

NullCall(op, s, ret) ==
    [op |-> op, x |-> x, u |-> s.u, dt |-> s.dt, marker |-> marker, ret |-> ret]

NullEvaluate(s) ==
    /\ NullReady
    /\ nops < MaxNullOps
    /\ x' = NullEvaluateState(marker, g_a, x, s.u, s.dt)
    /\ last' = NullCall("evaluate", s, x')
    /\ nops' = nops + 1
    /\ UNCHANGED <<params, run_filter, status, pre_vars, x_single, hist, marker>>

NullStateJacobian(s) ==
    /\ NullReady
    /\ last' = NullCall("state_jacobian", s,
                        NullStateJacobianOf(marker, perturbation, g_a, x, s.u, s.dt))
    /\ UNCHANGED <<params, run_filter, status, pre_vars, x, x_single, hist, marker, nops>>

NullInputJacobian(s) ==
    /\ NullReady
    /\ last' = NullCall("input_jacobian", s,
                        NullInputJacobianOf(marker, perturbation, x, s.u, s.dt))
    /\ UNCHANGED <<params, run_filter, status, pre_vars, x, x_single, hist, marker, nops>>

NextNull ==
    \/ NewNull
    \/ \E m0, m1 \in {0, 1} : SetMarker(m0, m1)
    \/ \E s \in PositiveSamples \cup RotatingSamples : NullEvaluate(s)
    \/ \E s \in PositiveSamples : NullStateJacobian(s)
    \/ \E s \in PositiveSamples : NullInputJacobian(s)

SpecNull == Init /\ [][NextNull]_vars

(***************************************************************************)
(* The single-step model run over the evaluate calls since the last reset. *)
(* An entry of hist holds the state handed to evaluate (the pre-step       *)
(* state), the input and the time step of one call.                        *)
(***************************************************************************)
StepF(h) == CoupledStateJacobian(perturbation, g_a, h.x, h.u, h.dt)
StepQ(h) == CoupledCovariance(perturbation, Q_c, h.x, h.u, h.dt)

\* P <- F_k P F_k^T + Q_k over the calls h[1..n]
RECURSIVE Recursion(_, _, _)
Recursion(h, n, P) ==
    IF n = 0 THEN P
    ELSE LET Pm == Recursion(h, n - 1, P)
             F == StepF(h[n])
         IN  MatAdd(MatMul(MatMul(F, Pm), Transpose(F)), StepQ(h[n]))

\* U_1 U_2 ... U_n and G_n ... G_2 G_1 over the calls h[1..n]
RECURSIVE ProductU(_, _)
ProductU(h, n) ==
    IF n = 0 THEN Eye(5)
    ELSE MatMul(ProductU(h, n - 1), generate_u(h[n].u, h[n].dt))
RECURSIVE ProductG(_, _)
ProductG(h, n) ==
    IF n = 0 THEN Eye(5)
    ELSE MatMul(generate_g(h[n].u, h[n].dt, g_a), ProductG(h, n - 1))

\* every call since the last reset had dt > 0
PositiveSteps == \A k \in 1..Len(hist) : hist[k].dt > 0

(***************************************************************************)
(* Properties.                                                             *)
(***************************************************************************)
PreBuilt == status["PreintegratedProcessModel"] = "ready"
WasReset == PreBuilt /\ P_i \in ResetCovariances
AfterEvaluate == last.op = "evaluate"

\* C1: the preintegrated model and the single-step model, fed the same
\* samples from the same initial state, hold the same state after every
\* call, wherever resets are interleaved and under either convention.
C1_SameState == x = x_single

\* C1 witness: evaluate, reset, evaluate under the left convention
C1_Witness ==
    /\ AfterEvaluate /\ nops = 3 /\ Len(hist) = 1 /\ WasReset
    /\ perturbation = "left" /\ last.dt > 0 /\ x # last.x

\* C2 (as claimed): N >= 1 evaluate calls with dt > 0 after a reset(P):
\* A_ij P A_ij^T + covariance() is the single-step recursion
\* P <- F_k P F_k^T + Q_k started from P, and covariance() alone is that
\* recursion started from 0, with F_k and Q_k the single-step Jacobian and
\* covariance of call k at the state handed to that call.
C2_CovarianceRecursion ==
    (WasReset /\ Len(hist) >= 1 /\ PositiveSteps) =>
        /\ MatAdd(MatMul(MatMul(A_ij, P_i), Transpose(A_ij)), PreCovariance)
              = Recursion(hist, Len(hist), P_i)
        /\ PreCovariance = Recursion(hist, Len(hist), Zeros(15, 15))

\* C3: right after reset_incremental_jacobians(P), U_ij and G_ij are the
\* 5 x 5 identity, B_ij and Q_ij are zero, and P_i = P_j = P.
C3_ResetState ==
    last.op = "reset_incremental_jacobians" =>
        /\ U_ij = Eye(5) /\ G_ij = Eye(5)
        /\ B_ij = Zeros(9, 6)
        /\ Q_ij = Zeros(15, 15) /\ ~Q_nan
        /\ P_i = last.P /\ P_j = last.P

\* C3 witness: a reset after two evaluate calls
C3_Witness ==
    /\ last.op = "reset_incremental_jacobians" /\ nops = 3
    /\ x # X0 /\ A_ij # Zeros(15, 15) /\ last.P # Eye(15) /\ P_i = last.P

\* C4 (as claimed): one evaluate(x, u, dt) right after a reset returns the
\* single-step state, and covariance() and state_jacobian() are the
\* single-step covariance and Jacobian at (x, u, dt), x the state handed to
\* evaluate.
C4_SingleStepAfterReset ==
    (AfterEvaluate /\ WasReset /\ Len(hist) = 1 /\ last.dt > 0) =>
        /\ last.ret = CoupledEvaluate(g_a, last.x, last.u, last.dt)
        /\ PreCovariance
              = CoupledCovariance(perturbation, Q_c, last.x, last.u, last.dt)
        /\ A_ij = CoupledStateJacobian(perturbation, g_a, last.x, last.u, last.dt)

\* C5: U_ij = U_1 U_2 ... U_k and G_ij = G_k ... G_2 G_1 over the k calls
\* since the last reset, and the increments change in no call but evaluate,
\* reset and the constructor: state_jacobian and covariance leave them.
C5_Products ==
    PreBuilt => /\ U_ij = ProductU(hist, Len(hist))
                /\ G_ij = ProductG(hist, Len(hist))
C5_Frame ==
    <<U_ij, G_ij, B_ij, Q_ij, Q_nan>>' # <<U_ij, G_ij, B_ij, Q_ij, Q_nan>> =>
        last'.op \in {"evaluate", "reset_incremental_jacobians",
                      "PreintegratedProcessModel.__init__"}
C5_Increments == [](C5_Products) /\ [][C5_Frame]_vars

\* C5 witness: three calls whose first two U do not commute, then a query
C5_Witness ==
    /\ Len(hist) = 3 /\ last.op \in {"state_jacobian", "covariance"}
    /\ MatMul(generate_u(hist[1].u, hist[1].dt), generate_u(hist[2].u, hist[2].dt))
         # MatMul(generate_u(hist[2].u, hist[2].dt), generate_u(hist[1].u, hist[1].dt))

\* C6: a constructor called with a perturbation other than "left" or
\* "right" raises ValueError and leaves no model; with "left" or "right"
\* it yields the model.
C6_PerturbationChecked ==
    \A c \in Classes :
        status[c] # "unbuilt" =>
            IF perturbation \in {"left", "right"}
            THEN status[c] = "ready"
            ELSE /\ status[c] = "ValueError"
                 /\ c = "PreintegratedProcessModel" => U_ij = None /\ A_ij = None
                 /\ c = "NullOnUpdateCoupledIMU" => marker = None

\* C6 witness: the three constructors have refused a value that is none
C6_Witness ==
    /\ perturbation \notin {"left", "right"}
    /\ \A c \in Classes : status[c] = "ValueError"

\* C7 (as claimed): no evaluate call with dt <= 0 completes, and Q_ij never
\* holds the result of a division of Q_c by 0.
C7_NonPositiveDtRefused ==
    /\ (AfterEvaluate => last.dt > 0)
    /\ ~Q_nan

\* C8: with marker[0] set, the rotation block of the U that evaluate
\* composes is the identity, the returned rotation block is the one handed
\* in, and rows 0-2 of state_jacobian are [I, 0, ..., 0].
C8_AngularGate ==
    /\ (AfterEvaluate /\ Set(last.marker[0]) /\ last.dt > 0) =>
           /\ CompC(NullU(last.marker, last.u, last.dt)) = Eye(3)
           /\ CompC(last.ret) = CompC(last.x)
    /\ (last.op = "state_jacobian" /\ Set(last.marker[0])) =>
           Slice(last.ret, 0, 3, 0, 15) = CatCols(Eye(3), Zeros(3, 12))

\* C8 witness: a rotating sample evaluated with marker[0] set alone
C8_Witness ==
    /\ AfterEvaluate /\ Set(last.marker[0]) /\ ~Set(last.marker[1])
    /\ CompC(generate_u(last.u, last.dt)) # Eye(3)
    /\ nops = 2

\* C9: with marker[1] set, evaluate returns x @ U without G, the velocity
\* and position columns are the ones handed in, and rows 3-8 of
\* state_jacobian are zero but for identity blocks at [3:6,3:6], [6:9,6:9].
C9_LinearGate ==
    /\ (AfterEvaluate /\ Set(last.marker[1]) /\ last.dt > 0) =>
           /\ last.ret = MatMul(last.x, NullU(last.marker, last.u, last.dt))
           /\ CompV(last.ret) = CompV(last.x)
           /\ CompR(last.ret) = CompR(last.x)
    /\ (last.op = "state_jacobian" /\ Set(last.marker[1])) =>
           Slice(last.ret, 3, 9, 0, 15)
              = CatCols3(Zeros(6, 3), Eye(6), Zeros(6, 6))

\* C9 witness: marker[1] set alone, where the ungated step moves the state
C9_Witness ==
    /\ AfterEvaluate /\ Set(last.marker[1]) /\ ~Set(last.marker[0])
    /\ CompV(CoupledEvaluate(g_a, last.x, last.u, last.dt)) # CompV(last.x)
    /\ nops = 2

\* C10 (as claimed): input_jacobian, like state_jacobian, zeroes rows 0-2
\* under marker[0] and rows 3-8 under marker[1] and sets their diagonal
\* blocks to the identity.
C10_InputJacobianGate ==
    last.op = "input_jacobian" =>
        /\ Set(last.marker[0]) =>
               Slice(last.ret, 0, 3, 0, 12) = CatCols(Eye(3), Zeros(3, 9))
        /\ Set(last.marker[1]) =>
               Slice(last.ret, 3, 9, 0, 12)
                  = CatCols3(Zeros(6, 3), Eye(6), Zeros(6, 3))

\* the calls of the null-gated model, and the marker of a model whose
\* owner has supplied none
NullOps == {"evaluate", "state_jacobian", "input_jacobian"}
NoMarker == [i \in 0..4 |-> 0]

\* what a call returns when no gate is applied to it
UngatedReturn(c) ==
    CASE c.op = "evaluate" ->
             NullEvaluateState(NoMarker, g_a, c.x, c.u, c.dt)
      [] c.op = "state_jacobian" ->
             NullStateJacobianOf(NoMarker, perturbation, g_a, c.x, c.u, c.dt)
      [] c.op = "input_jacobian" ->
             NullInputJacobianOf(NoMarker, perturbation, c.x, c.u, c.dt)

\* C11 (as claimed): evaluate, state_jacobian and input_jacobian never
\* modify marker, and the marker is no state of the model: a call that
\* follows another call, its owner having supplied no marker for it, is
\* not gated by the marker that was set for the earlier call.
C11_ReadOnly ==
    last'.op \in NullOps => marker' = marker
C11_PerCall ==
    (last.op \in NullOps /\ last'.op \in NullOps) =>
        last'.ret = UngatedReturn(last')
C11_MarkerNotPersisted == [][C11_ReadOnly /\ C11_PerCall]_vars

\* the determinant of a 3 x 3 matrix
Det3(C) ==
    C[0][0] * (C[1][1] * C[2][2] - C[1][2] * C[2][1])
      - C[0][1] * (C[1][0] * C[2][2] - C[1][2] * C[2][0])
      + C[0][2] * (C[1][0] * C[2][1] - C[1][1] * C[2][0])

\* an element of SE_2(3): the rotation block is orthonormal with
\* determinant +1 and rows 3-4 are [0,0,0,1,0 / 0,0,0,0,1]
IsRotation(C) == MatMul(C, Transpose(C)) = Eye(3) /\ Det3(C) = 1
IsSE23(X) ==
    /\ NRows(X) = 5 /\ NCols(X) = 5
    /\ IsRotation(CompC(X))
    /\ Slice(X, 3, 5, 0, 5) = LowerBlock(0)

\* C12: from a valid SE_2(3) state, the state after any sequence of
\* evaluate calls with dt > 0 is a valid SE_2(3) element again, whichever
\* model makes the step: the null-gated one under any markers, the
\* single-step one or the preintegrated one.
C12_GroupClosure ==
    /\ IsSE23(x)
    /\ AfterEvaluate =>
           /\ IsSE23(last.x)
           /\ IsSE23(last.ret)
           /\ IsSE23(CoupledEvaluate(g_a, last.x, last.u, last.dt))
           /\ IsSE23(PreEvaluateState(g_a, last.x, last.u, last.dt))

\* C12 witness: a second step, made under marker[1], that turns the body
\* and follows a step that moved it
C12_Witness ==
    /\ AfterEvaluate /\ nops = 2 /\ Set(last.marker[1])
    /\ CompC(last.ret) # CompC(last.x)
    /\ last.x # X0

(***************************************************************************)
(* Batches.  A tensor of batch size N is the sequence of its N matrices,   *)
(* one per trajectory.  A batched call either raises a RuntimeError of     *)
(* torch (a reshape or a cat whose sizes do not fit) or returns a tensor   *)
(* of batch size N.                                                        *)
(***************************************************************************)
\* the largest batch size
MaxBatch == 2

\* the outcome of a call: an exception, or a returned value
Raise == [error |-> "RuntimeError", out |-> << >>]
Return(v) == [error |-> "", out |-> v]

\* one trajectory: its state x, its input u, and an IE3 matrix X of its own
Trajectory(s) ==
    [x |-> CoupledEvaluate(GravityValue, X0, s.u, s.dt),
     u |-> s.u,
     X |-> MatMul(X0, generate_u(s.u, s.dt))]
\* a state at rest with identity attitude, at the position (0, 2, 0)
RestState ==
    CatRows(CatCols3(Eye(3), ZeroVec3, Vec3(0, 2, 0)), LowerBlock(0))
\* the trajectory of a level sensor at rest: the accelerometer reads -g_a
RestTrajectory ==
    [x |-> RestState,
     u |-> [omega |-> ZeroVec3, acc |-> Neg(GravityValue)],
     X |-> generate_u([omega |-> ZeroVec3, acc |-> Neg(GravityValue)], 2)]
Trajectories == {Trajectory(s) : s \in PositiveSamples} \cup {RestTrajectory}

\* the batches x, u of shape [N, 5, 5], [N, 2, 3], and the time steps
Batches == UNION {[1..n -> Trajectories] : n \in 1..MaxBatch}
BatchDts == {2, 4}

\* generate_u, generate_g, generate_nu: batched throughout
BatchedGenerateU(b, dt) == [i \in 1..Len(b) |-> generate_u(b[i].u, dt)]
BatchedGenerateG(b, dt, g) == [i \in 1..Len(b) |-> generate_g(b[i].u, dt, g)]

\* generate_upsilon: acc = u[:, 1, :].reshape(1, 3, 1) takes the 3 N
\* entries of u[:, 1, :] into a tensor of 3 entries
BatchedGenerateUpsilon(b, dt) ==
    IF 3 * Len(b) # 1 * 3 * 1 THEN Raise
    ELSE Return([i \in 1..Len(b) |-> generate_upsilon(b[i].u, dt)])

\* c.unsqueeze(1) * v in ie3_adj, for trajectory k: c of shape [N, 1]
\* against v of shape [N, 3, 1] pairs the entries of c with the rows of v
UnsqueezedCTimesV(Xs, k) ==
    IF Len(Xs) = 1 THEN Scale(Xs[1][3][4], CompV(Xs[1]))
    ELSE Tensor([i \in Idx(3) |-> [j \in Idx(1) |->
             Xs[i + 1][3][4] * CompV(Xs[k])[i][0]]])

\* ie3_adj: [N, 1] and [N, 3, 1] broadcast when N is 1 or 3
BatchedIe3Adj(Xs) ==
    IF Len(Xs) # 1 /\ Len(Xs) # 3 THEN Raise
    ELSE Return([k \in 1..Len(Xs) |->
            LET C == CompC(Xs[k])
                v == CompV(Xs[k])
                r == CompR(Xs[k])
                c == Xs[k][3][4]
                Z == Zeros(3, 3)
                ad_20 == Neg(MatMul(Wedge(MatSub(UnsqueezedCTimesV(Xs, k), r)), C))
                ad_10 == MatMul(Wedge(v), C)
            IN  CatRows3(CatCols3(C, Z, Z),
                         CatCols3(ad_10, C, Z),
                         CatCols3(ad_20, Scale(-c, C), C))])

\* ie3_inv: c * v, c of shape [N] against v of shape [N, 3, 1], has shape
\* [N, 3, N]; the upper block is 3 + 1 + N wide, the lower block 5
BatchedIe3Inv(Xs) ==
    IF 3 + 1 + Len(Xs) # 5 THEN Raise
    ELSE Return([k \in 1..Len(Xs) |-> ie3_inv(Xs[k])])

\* ie3_adj(ie3_inv(X))
BatchedIe3AdjInv(Xs) ==
    IF BatchedIe3Inv(Xs).error # "" THEN Raise
    ELSE BatchedIe3Adj(BatchedIe3Inv(Xs).out)

\* input_jacobian_pose: SE23.left_jacobian(-nu) @ generate_upsilon(u, dt)
BatchedInputJacobianPose(b, dt) ==
    IF BatchedGenerateUpsilon(b, dt).error # "" THEN Raise
    ELSE Return([i \in 1..Len(b) |->
            MatMul(SE23LeftJacobian(Neg(generate_nu(b[i].u, dt))),
                   BatchedGenerateUpsilon(b, dt).out[i])])

\* CoupledIMUKinematicModel.evaluate on a batch
BatchedEvaluate(g, b, dt) ==
    Return([i \in 1..Len(b) |->
        MatMul(MatMul(BatchedGenerateG(b, dt, g)[i], b[i].x),
               BatchedGenerateU(b, dt)[i])])

\* CoupledIMUKinematicModel.state_jacobian on a batch
BatchedStateJacobian(pert, g, b, dt) ==
    LET A == IF pert = "right" THEN BatchedIe3AdjInv(BatchedGenerateU(b, dt))
             ELSE BatchedIe3Adj(BatchedGenerateG(b, dt, g))
        L == BatchedInputJacobianPose(b, dt)
    IN  IF A.error # "" \/ L.error # "" THEN Raise
        ELSE Return([i \in 1..Len(b) |->
                CatRows(CatCols(A.out[i],
                                IF pert = "right" THEN Neg(L.out[i])
                                ELSE MatMul(Neg(SE23Adjoint(b[i].x)), L.out[i])),
                        CatCols(Zeros(6, 9), Eye(6)))])

\* CoupledIMUKinematicModel.input_jacobian on a batch
BatchedInputJacobian(pert, b, dt) ==
    LET L == BatchedInputJacobianPose(b, dt)
    IN  IF L.error # "" THEN Raise
        ELSE Return([i \in 1..Len(b) |->
                CatRows(CatCols(IF pert = "right" THEN L.out[i]
                                ELSE MatMul(SE23Adjoint(b[i].x), L.out[i]),
                                Zeros(9, 6)),
                        CatCols(Zeros(6, 6), Scale(dt, Eye(6))))])

\* CoupledIMUKinematicModel.covariance on a batch
BatchedCovariance(pert, Qc, b, dt) ==
    LET Lk == BatchedInputJacobian(pert, b, dt)
    IN  IF Lk.error # "" THEN Raise
        ELSE Return([i \in 1..Len(b) |->
                MatMul(MatMul(Lk.out[i], QcOverDt(Qc, dt)), Transpose(Lk.out[i]))])

\* the batched calls
BatchOps ==
    {"CoupledIMUKinematicModel.evaluate",
     "CoupledIMUKinematicModel.state_jacobian",
     "CoupledIMUKinematicModel.input_jacobian",
     "CoupledIMUKinematicModel.covariance",
     "CoupledIMUKinematicModel.ie3_adj",
     "CoupledIMUKinematicModel.ie3_inv",
     "CoupledIMUKinematicModel.generate_upsilon",
     "PreintegratedProcessModel.evaluate"}

\* the single-step model is called on a batch right after its construction
CoupledFresh == Ready /\ last.op = "CoupledIMUKinematicModel.__init__"

BatchCall(op, b, dt, ret) == [op |-> op, b |-> b, dt |-> dt, ret |-> ret]

CallEvaluate(b, dt) ==
    /\ CoupledFresh
    /\ last' = BatchCall("CoupledIMUKinematicModel.evaluate", b, dt,
                         BatchedEvaluate(g_a, b, dt))
    /\ UNCHANGED <<params, run_filter, status, pre_vars, x, x_single, hist, marker, nops>>

CallStateJacobian(b, dt) ==
    /\ CoupledFresh
    /\ last' = BatchCall("CoupledIMUKinematicModel.state_jacobian", b, dt,
                         BatchedStateJacobian(perturbation, g_a, b, dt))
    /\ UNCHANGED <<params, run_filter, status, pre_vars, x, x_single, hist, marker, nops>>

CallInputJacobian(b, dt) ==
    /\ CoupledFresh
    /\ last' = BatchCall("CoupledIMUKinematicModel.input_jacobian", b, dt,
                         BatchedInputJacobian(perturbation, b, dt))
    /\ UNCHANGED <<params, run_filter, status, pre_vars, x, x_single, hist, marker, nops>>

CallCovariance(b, dt) ==
    /\ CoupledFresh
    /\ last' = BatchCall("CoupledIMUKinematicModel.covariance", b, dt,
                         BatchedCovariance(perturbation, Q_c, b, dt))
    /\ UNCHANGED <<params, run_filter, status, pre_vars, x, x_single, hist, marker, nops>>

CallGenerateUpsilon(b, dt) ==
    /\ CoupledFresh
    /\ last' = BatchCall("CoupledIMUKinematicModel.generate_upsilon", b, dt,
                         BatchedGenerateUpsilon(b, dt))
    /\ UNCHANGED <<params, run_filter, status, pre_vars, x, x_single, hist, marker, nops>>

\* ie3_adj and ie3_inv take the batch of the matrices X alone
CallIe3Adj(b) ==
    /\ CoupledFresh
    /\ last' = BatchCall("CoupledIMUKinematicModel.ie3_adj", b, 0,
                         BatchedIe3Adj([i \in 1..Len(b) |-> b[i].X]))
    /\ UNCHANGED <<params, run_filter, status, pre_vars, x, x_single, hist, marker, nops>>

CallIe3Inv(b) ==
    /\ CoupledFresh
    /\ last' = BatchCall("CoupledIMUKinematicModel.ie3_inv", b, 0,
                         BatchedIe3Inv([i \in 1..Len(b) |-> b[i].X]))
    /\ UNCHANGED <<params, run_filter, status, pre_vars, x, x_single, hist, marker, nops>>

\* reset_incremental_jacobians(P) as the first call on the model
FirstReset(P) == nops = 0 /\ Reset(P)

\* PreintegratedProcessModel.evaluate on a batch, right after a reset:
\* U_ij and G_ij are assigned before ie3_inv and generate_upsilon are
\* reached, the other fields after them
CallPreEvaluate(b, dt) ==
    LET U == BatchedGenerateU(b, dt)
        G == BatchedGenerateG(b, dt, g_a)
        xn == [i \in 1..Len(b) |-> MatMul(MatMul(G[i], b[i].x), U[i])]
        Uij == [i \in 1..Len(b) |-> StepU_ij(U_ij, U[i])]
        Gij == [i \in 1..Len(b) |-> StepG_ij(G_ij, G[i])]
        A == BatchedIe3AdjInv(U)
        L == BatchedInputJacobianPose(b, dt)
        ok == A.error = "" /\ L.error = ""
        Bij == [i \in 1..Len(b) |-> StepB_ij(B_ij, A.out[i], L.out[i])]
    IN  /\ Ready
        /\ last.op = "reset_incremental_jacobians"
        /\ U_ij' = Uij
        /\ G_ij' = Gij
        /\ IF ok
           THEN /\ B_ij' = Bij
                /\ Q_ij' = [i \in 1..Len(b) |->
                               StepQ_ij(Q_ij, Q_c, A.out[i], L.out[i], dt)]
                /\ A_ij' = [i \in 1..Len(b) |->
                               FullA_ij(perturbation, Uij[i], Gij[i], Bij[i], xn[i])]
                /\ L_ij' = [i \in 1..Len(b) |-> FullL_ij(perturbation, xn[i])]
           ELSE UNCHANGED <<B_ij, Q_ij, A_ij, L_ij>>
        /\ last' = BatchCall("PreintegratedProcessModel.evaluate", b, dt,
                             IF ok THEN Return(xn) ELSE Raise)
        /\ UNCHANGED <<params, run_filter, status, Q_nan, P_i, P_j, x, x_single, hist,
                       marker, nops>>

NextBatch ==
    \/ NewPreintegrated
    \/ NewCoupled
    \/ \E P \in ResetCovariances : FirstReset(P)
    \/ \E b \in Batches : \E dt \in BatchDts : CallEvaluate(b, dt)
    \/ \E b \in Batches : \E dt \in BatchDts : CallStateJacobian(b, dt)
    \/ \E b \in Batches : \E dt \in BatchDts : CallInputJacobian(b, dt)
    \/ \E b \in Batches : \E dt \in BatchDts : CallCovariance(b, dt)
    \/ \E b \in Batches : \E dt \in BatchDts : CallGenerateUpsilon(b, dt)
    \/ \E b \in Batches : CallIe3Adj(b)
    \/ \E b \in Batches : CallIe3Inv(b)
    \/ \E b \in Batches : \E dt \in BatchDts : CallPreEvaluate(b, dt)

SpecBatch == Init /\ [][NextBatch]_vars

\* what a call returns for one trajectory run alone, with batch size 1
Alone(op, t, dt) ==
    CASE op = "CoupledIMUKinematicModel.evaluate" ->
            CoupledEvaluate(g_a, t.x, t.u, dt)
      [] op = "CoupledIMUKinematicModel.state_jacobian" ->
            CoupledStateJacobian(perturbation, g_a, t.x, t.u, dt)
      [] op = "CoupledIMUKinematicModel.input_jacobian" ->
            CoupledInputJacobian(perturbation, t.x, t.u, dt)
      [] op = "CoupledIMUKinematicModel.covariance" ->
            CoupledCovariance(perturbation, Q_c, t.x, t.u, dt)
      [] op = "CoupledIMUKinematicModel.ie3_adj" -> ie3_adj(t.X)
      [] op = "CoupledIMUKinematicModel.ie3_inv" -> ie3_inv(t.X)
      [] op = "CoupledIMUKinematicModel.generate_upsilon" ->
            generate_upsilon(t.u, dt)
      [] op = "PreintegratedProcessModel.evaluate" ->
            PreEvaluateState(g_a, t.x, t.u, dt)

\* C13: every call on a batch of N >= 1 trajectories succeeds and returns
\* for trajectory i what the call returns for trajectory i alone
C13_BatchIndependence ==
    last.op \in BatchOps =>
        /\ last.ret.error = ""
        /\ \A i \in 1..Len(last.b) :
               last.ret.out[i] = Alone(last.op, last.b[i], last.dt)

\* the same for the batches of one trajectory, and for the calls that go
\* through no reshape and no product of c and v
C13_BatchOfOne ==
    (last.op \in BatchOps /\
     (Len(last.b) = 1 \/ last.op = "CoupledIMUKinematicModel.evaluate")) =>
        /\ last.ret.error = ""
        /\ \A i \in 1..Len(last.b) :
               last.ret.out[i] = Alone(last.op, last.b[i], last.dt)

\* a batch of two raises, and leaves U_ij assigned and B_ij not
C13_PartialUpdate ==
    /\ last.op = "PreintegratedProcessModel.evaluate"
    /\ Len(last.b) = 2
    /\ last.ret.error = "RuntimeError"
    /\ Len(U_ij) = 2
    /\ B_ij = Zeros(9, 6)

\* a state at rest with identity attitude
AtRest(X) == CompC(X) = Eye(3) /\ CompV(X) = ZeroVec3

\* trajectory i of the last call is the example: evaluate of the
\* single-step model, from rest, with omega = 0 and acc = -g_a
RestExample(i) ==
    /\ last.op = "CoupledIMUKinematicModel.evaluate"
    /\ i \in 1..Len(last.b)
    /\ AtRest(last.b[i].x)
    /\ last.b[i].u.omega = ZeroVec3
    /\ last.b[i].u.acc = Neg(g_a)

\* C14: one evaluate step of the single-step model from rest with identity
\* attitude, omega = 0 and acc = -g_a leaves the rotation unchanged, the
\* velocity zero and the position unchanged
C14_GravityCancels ==
    \A i \in 1..MaxBatch :
        RestExample(i) =>
            /\ last.ret.error = ""
            /\ CompC(last.ret.out[i]) = CompC(last.b[i].x)
            /\ CompV(last.ret.out[i]) = ZeroVec3
            /\ CompR(last.ret.out[i]) = CompR(last.b[i].x)

C14_Witness ==
    /\ RestExample(1)
    /\ last.dt = 2
    /\ CompR(last.b[1].x) = Vec3(0, 2, 0)
    /\ last.ret.out[1] = last.b[1].x

\* F_n ... F_2 F_1 over the calls h[1..n], F_m the single-step Jacobian of
\* call m at the state handed to that call
RECURSIVE ProductF(_, _)
ProductF(h, n) ==
    IF n = 0 THEN Eye(15)
    ELSE MatMul(StepF(h[n]), ProductF(h, n - 1))

\* the same with F_m taken at the state call m returned
StepFPost(h) ==
    CoupledStateJacobian(perturbation, g_a,
                         CoupledEvaluate(g_a, h.x, h.u, h.dt), h.u, h.dt)
RECURSIVE ProductFPost(_, _)
ProductFPost(h, n) ==
    IF n = 0 THEN Eye(15)
    ELSE MatMul(StepFPost(h[n]), ProductFPost(h, n - 1))

\* C15 (as claimed): after k >= 1 evaluate calls since the last reset,
\* A_ij is the product F_k ... F_2 F_1 of the single-step Jacobians of
\* those k calls, each at its input and pre-step state, under both
\* conventions, with no contribution of the calls before the reset.
C15_JacobianProduct ==
    (PreBuilt /\ Len(hist) >= 1) => A_ij = ProductF(hist, Len(hist))

\* under the right convention the product is A_ij; under the left one
\* A_ij is the product of the Jacobians taken at the post-step states
C15_RightProduct ==
    (PreBuilt /\ Len(hist) >= 1 /\ perturbation = "right") =>
        A_ij = ProductF(hist, Len(hist))
C15_LeftPostProduct ==
    (PreBuilt /\ Len(hist) >= 1 /\ perturbation = "left") =>
        A_ij = ProductFPost(hist, Len(hist))

\* C16 (as claimed): in every reachable state of the preintegrated model,
\* right after construction and right after a reset included, covariance()
\* completes without error and returns the 15 x 15 matrix
\* L_ij Q_ij L_ij^T: the shapes of L_ij and Q_ij always agree.
C16_CovarianceDefined ==
    /\ PreBuilt => Compatible(L_ij, Q_ij)
    /\ (last.op = "covariance" /\ ~Q_nan) =>
           /\ Compatible(L_ij, Q_ij)
           /\ last.ret = PreCovariance
           /\ NRows(last.ret) = 15 /\ NCols(last.ret) = 15

\* once evaluate has run, the shapes agree and covariance() returns
\* L_ij Q_ij L_ij^T; before, L_ij is 15 x 12 and covariance() raises
C16_AfterFirstEvaluate ==
    /\ (PreBuilt /\ Len(hist) >= 1) => Compatible(L_ij, Q_ij)
    /\ (last.op = "covariance" /\ ~Q_nan /\ Compatible(L_ij, Q_ij)) =>
           /\ last.ret = PreCovariance
           /\ NRows(last.ret) = 15 /\ NCols(last.ret) = 15
    /\ (last.op = "covariance" /\ ~Compatible(L_ij, Q_ij)) =>
           /\ L_ij = Zeros(15, 12)
           /\ last.ret = "RuntimeError"

(***************************************************************************)
(* The IE3 matrices: ie3_inv and ie3_adj as functions of their argument.   *)
(***************************************************************************)
\* the number of factors of an argument
MaxFactors == 2

\* an IE3 matrix whose scalar is no time step: a quarter turn about y,
\* v = (1,-2,3), r = (4,0,-1), c = 5
IE3Odd ==
    CatRows(CatCols3(SO3Exp(Vec3(0, 2, 0)), Vec3(1, -2, 3), Vec3(4, 0, -1)),
            LowerBlock(5))

\* the U of every sample (the identity for dt = 0), a G, a state, IE3Odd
IE3Base ==
    {generate_u(s.u, s.dt) : s \in Samples \cup RotatingSamples}
      \cup {generate_g(s.u, s.dt, GravityValue) : s \in {t \in Samples : t.dt = 2}}
      \cup {X0, IE3Odd}

\* the arguments: the products of up to MaxFactors matrices of IE3Base
Factors == UNION {[1..n -> IE3Base] : n \in 1..MaxFactors}
RECURSIVE ProductOf(_, _)
ProductOf(f, n) ==
    IF n = 1 THEN f[1] ELSE MatMul(ProductOf(f, n - 1), f[n])

\* X is an IE3 matrix: a rotation block, and rows 3-4 [0,0,0,1,c / 0,0,0,0,1]
IsIE3(X) ==
    /\ NRows(X) = 5 /\ NCols(X) = 5
    /\ IsRotation(CompC(X))
    /\ Slice(X, 3, 5, 0, 5) = LowerBlock(X[3][4])

\* ie3_inv(X) and ie3_adj(X), X the product of the factors f
Ie3Inv(f) ==
    /\ last.op = "none"
    /\ last' = [op |-> "ie3_inv", factors |-> f, X |-> ProductOf(f, Len(f)),
                ret |-> ie3_inv(ProductOf(f, Len(f)))]
    /\ UNCHANGED <<params, run_filter, status, pre_vars, x, x_single, hist, marker, nops>>

Ie3Adj(f) ==
    /\ last.op = "none"
    /\ last' = [op |-> "ie3_adj", factors |-> f, X |-> ProductOf(f, Len(f)),
                ret |-> ie3_adj(ProductOf(f, Len(f)))]
    /\ UNCHANGED <<params, run_filter, status, pre_vars, x, x_single, hist, marker, nops>>

NextIE3 ==
    \/ \E f \in Factors : Ie3Inv(f)
    \/ \E f \in Factors : Ie3Adj(f)

SpecIE3 == Init /\ [][NextIE3]_vars

\* C17: ie3_inv is an exact two-sided inverse on the IE3 matrices, whatever
\* the scalar c: ie3_inv(X) @ X = X @ ie3_inv(X) = identity, and
\* ie3_inv(ie3_inv(X)) = X.
C17_ExactInverse ==
    last.op = "ie3_inv" =>
        /\ IsIE3(last.X)
        /\ IsIE3(last.ret)
        /\ MatMul(last.ret, last.X) = Eye(5)
        /\ MatMul(last.X, last.ret) = Eye(5)
        /\ ie3_inv(last.ret) = last.X

\* C17 witness: a product of two matrices with scalar 5 + 2, moving v and r
C17_Witness ==
    /\ last.op = "ie3_inv"
    /\ Len(last.factors) = 2
    /\ last.X[3][4] = 7
    /\ last.ret[3][4] = -7
    /\ CompV(last.X) # ZeroVec3
    /\ CompC(last.X) # Eye(3)
    /\ Scale(last.X[3][4], CompV(last.X)) # CompR(last.X)

\* ie3_adj(f[1]) @ ... @ ie3_adj(f[n])
RECURSIVE ProductOfAdj(_, _)
ProductOfAdj(f, n) ==
    IF n = 1 THEN ie3_adj(f[1])
    ELSE MatMul(ProductOfAdj(f, n - 1), ie3_adj(f[n]))

\* C18: ie3_adj(X @ Y) = ie3_adj(X) @ ie3_adj(Y) on the IE3 matrices,
\* ie3_adj(identity) = identity, and ie3_adj(ie3_inv(X)) is the inverse of
\* ie3_adj(X).
C18_AdjointOfProduct ==
    last.op = "ie3_adj" =>
        /\ IsIE3(last.X)
        /\ last.ret = ProductOfAdj(last.factors, Len(last.factors))
        /\ last.X = Eye(5) => last.ret = Eye(9)
        /\ MatMul(ie3_adj(ie3_inv(last.X)), last.ret) = Eye(9)
        /\ MatMul(last.ret, ie3_adj(ie3_inv(last.X))) = Eye(9)

\* C18 witness: two factors with scalars that do not commute
C18_Witness ==
    /\ last.op = "ie3_adj"
    /\ Len(last.factors) = 2
    /\ last.factors[1][3][4] # 0 /\ last.factors[2][3][4] # 0
    /\ MatMul(last.factors[1], last.factors[2])
         # MatMul(last.factors[2], last.factors[1])
    /\ last.ret # Eye(9)

\* the identity is an argument
C18_WitnessIdentity == last.op = "ie3_adj" /\ last.X = Eye(5) /\ last.ret = Eye(9)

(***************************************************************************)
(* run_filter: the loop that drives a filter over the trajectories of a    *)
(* dataset.  run_filter holds the locals of the function, pc its position. *)
(* The filter (VelocityVectorRegressor) is created per trajectory.  Its    *)
(* class is not part of the sources: the values its constructor and its    *)
(* methods leave in the attributes that run_filter reads are not known,    *)
(* and a step that calls it has every such value as an outcome.  calls     *)
(* lists the calls run_filter has made on the filter of the trajectory,    *)
(* logged counts the entries it has written to logging_vec.  Indices       *)
(* start at 1.                                                             *)
(***************************************************************************)
\* the number of trajectories of a dataset, of samples of a trajectory,
\* and the largest timestamp
MaxTrajectories == 2
MaxSamples == 3
MaxTime == 3

\* args.initialize_with_gt, args.target_elapsed_time (None, or <<t>> for
\* the limit t)
FilterArgs ==
    [initialize_with_gt : BOOLEAN, target_elapsed_time : {None, <<1>>}]

\* traj_dict["ts"][0] of a trajectory: any sequence of timestamps
Timestamps == UNION {[1..n -> 0..MaxTime] : n \in 1..MaxSamples}
StrictlyIncreasing(ts) == \A j \in 1..Len(ts) - 1 : ts[j] < ts[j + 1]

\* a trajectory of the data loader, with the timestamps ts
TrajDict(ts) ==
    [ts |-> ts,
     gyro |-> [k \in 1..Len(ts) |-> <<k, 0, 0>>],
     acc |-> [k \in 1..Len(ts) |-> <<0, 0, k>>],
     gt |-> [k \in 1..Len(ts) |-> <<"C", "v", "r", k>>]]

\* measurements = cat(gyro, acc): row k is m_k
Measurements(traj_dict) ==
    [k \in 1..Len(traj_dict.ts) |-> <<traj_dict.gyro[k], traj_dict.acc[k]>>]

\* quadrotor_model.initialized and quadrotor_model.did_update, the
\* attributes of the filter that run_filter reads: every pair of values
FilterAttributes == [initialized : BOOLEAN, did_update : BOOLEAN]

\* quadrotor_model = VelocityVectorRegressor(args, n): a filter whose
\* constructor has left the attributes q
Constructed(q) ==
    [initialized |-> q.initialized, did_update |-> q.did_update,
     logged |-> 0, calls |-> << >>]

\* a method of the filter has been called and has left the attributes q
Called(quadrotor_model, call, q) ==
    [quadrotor_model EXCEPT
        !.initialized = q.initialized,
        !.did_update = q.did_update,
        !.calls = Append(@, call)]

\* the module's global name args when run_filter(args) is entered: bound
\* to the namespace handed over (<<args>>) when the script calls, after its
\* args = parser.parse_args(); unbound (None) when an importer of the
\* module calls and nothing has bound the name
GlobalArgs(args) == {None, <<args>>}

\* the entry of run_filter(args), with the module's global name args;
\* quadrotor_model is not bound before the first trajectory
EnterRunFilter(args, module_args) ==
    [pc |-> "for_trajectory", args |-> args, module_args |-> module_args,
     i |-> 0,
     traj_dict |-> TrajDict(<<0>>), quadrotor_model |-> None,
     k |-> 0, m_k |-> << >>, t_k |-> 0, gt_k |-> << >>, dt |-> 0,
     t_k_prev |-> 0]

InitFilter ==
    /\ perturbation = "right"
    /\ Q_c = QcValue
    /\ g_a = GravityValue
    /\ status = [c \in Classes |-> "unbuilt"]
    /\ U_ij = None /\ G_ij = None /\ B_ij = None /\ Q_ij = None
    /\ Q_nan = FALSE
    /\ P_i = None /\ P_j = None /\ A_ij = None /\ L_ij = None
    /\ x = X0
    /\ x_single = X0
    /\ hist = << >>
    /\ marker = None
    /\ last = [op |-> "none"]
    /\ nops = 0
    /\ run_filter \in UNION {{EnterRunFilter(args, g) : g \in GlobalArgs(args)} :
                                  args \in FilterArgs}

filter_frame ==
    <<params, status, pre_vars, x, x_single, hist, marker, last, nops>>

\* for i, traj_tuple in enumerate(trajectory_dataloader): the next
\* trajectory, a new filter, t_k_prev = traj_dict["ts"][0][0]
ForTrajectory(ts, q) ==
    /\ run_filter.pc = "for_trajectory"
    /\ run_filter.i < MaxTrajectories
    /\ run_filter' = [run_filter EXCEPT
           !.pc = "for_sample",
           !.i = @ + 1,
           !.traj_dict = TrajDict(ts),
           !.quadrotor_model = Constructed(q),
           !.k = 0,
           !.t_k_prev = ts[1]]
    /\ UNCHANGED filter_frame

\* the data loader is exhausted: run_filter returns
ReturnFromRunFilter ==
    /\ run_filter.pc = "for_trajectory"
    /\ run_filter' = [run_filter EXCEPT !.pc = "returned"]
    /\ UNCHANGED filter_frame

\* for m_k, t_k, gt_k in zip(...): the next sample and dt = t_k - t_k_prev,
\* or the end of the loop
ForSample ==
    /\ run_filter.pc = "for_sample"
    /\ IF run_filter.k < Len(run_filter.traj_dict.ts)
       THEN run_filter' = [run_filter EXCEPT
                !.pc = "if_initialized",
                !.k = @ + 1,
                !.m_k = Measurements(run_filter.traj_dict)[run_filter.k + 1],
                !.t_k = run_filter.traj_dict.ts[run_filter.k + 1],
                !.gt_k = run_filter.traj_dict.gt[run_filter.k + 1],
                !.dt = run_filter.traj_dict.ts[run_filter.k + 1]
                         - run_filter.t_k_prev]
       ELSE run_filter' = [run_filter EXCEPT !.pc = "save"]
    /\ UNCHANGED filter_frame

\* a call on the filter, as recorded in calls, with the value of
\* quadrotor_model.initialized at the call
FilterCall(op) ==
    [op |-> op, k |-> run_filter.k, m_k |-> run_filter.m_k,
     t_k |-> run_filter.t_k, gt_k |-> run_filter.gt_k, dt |-> run_filter.dt,
     initialized |-> run_filter.quadrotor_model.initialized]

\* initialize_syn_pseudo_with_dido(model, traj_dict, idx), in the frame r
\* of run_filter: P_0[0:3, 0:3] *= args.sigma_theta_rp_init**2 reads the
\* global args and raises NameError when it is unbound, before
\* model.initialize is called; otherwise model.initialize(P_0, C_0, v_0,
\* r_0), which leaves the attributes q
initialize_syn_pseudo_with_dido(r, call, q) ==
    IF r.module_args = None
    THEN [r EXCEPT !.pc = "NameError"]
    ELSE [r EXCEPT !.pc = "log",
                   !.quadrotor_model = Called(@, call, q)]

\* if not quadrotor_model.initialized, with args.initialize_with_gt:
\* initialize_syn_pseudo_with_dido(quadrotor_model, traj_dict, i)
Initialize(q) ==
    /\ run_filter.pc = "if_initialized"
    /\ ~run_filter.quadrotor_model.initialized
    /\ run_filter.args.initialize_with_gt
    /\ run_filter' = initialize_syn_pseudo_with_dido(run_filter,
                                                     FilterCall("initialize"), q)
    /\ UNCHANGED filter_frame

\* ... without it: raise RuntimeError
RaiseNotImplemented ==
    /\ run_filter.pc = "if_initialized"
    /\ ~run_filter.quadrotor_model.initialized
    /\ ~run_filter.args.initialize_with_gt
    /\ run_filter' = [run_filter EXCEPT !.pc = "RuntimeError"]
    /\ UNCHANGED filter_frame

\* else: quadrotor_model.predict(m_k, dt)
Predict(q) ==
    /\ run_filter.pc = "if_initialized"
    /\ run_filter.quadrotor_model.initialized
    /\ run_filter' = [run_filter EXCEPT
           !.pc = "correct",
           !.quadrotor_model = Called(@, FilterCall("predict"), q)]
    /\ UNCHANGED filter_frame

\* quadrotor_model.correct(m_k, t_k, gt_k, dt)
Correct(q) ==
    /\ run_filter.pc = "correct"
    /\ run_filter' = [run_filter EXCEPT
           !.pc = "if_elapsed",
           !.quadrotor_model = Called(@, FilterCall("correct"), q)]
    /\ UNCHANGED filter_frame

\* if args.target_elapsed_time is not None and
\* (t_k - traj_dict["ts"][0][0]) > args.target_elapsed_time: break
IfElapsed ==
    /\ run_filter.pc = "if_elapsed"
    /\ run_filter' = [run_filter EXCEPT !.pc =
           IF /\ run_filter.args.target_elapsed_time # None
              /\ run_filter.t_k - run_filter.traj_dict.ts[1]
                    > run_filter.args.target_elapsed_time[1]
           THEN "save" ELSE "log"]
    /\ UNCHANGED filter_frame

\* the end of an iteration: the log entry written to logging_vec,
\* did_update cleared when it was set, t_k_prev = t_k
LogAndAdvance(r) ==
    [r EXCEPT
        !.pc = "for_sample",
        !.quadrotor_model.did_update = FALSE,
        !.quadrotor_model.logged = @ + 1,
        !.t_k_prev = r.t_k]

Log ==
    /\ run_filter.pc = "log"
    /\ run_filter' = LogAndAdvance(run_filter)
    /\ UNCHANGED filter_frame

\* after the loop: the histories are written to the output file
Save ==
    /\ run_filter.pc = "save"
    /\ run_filter' = [run_filter EXCEPT !.pc = "for_trajectory"]
    /\ UNCHANGED filter_frame

NextFilter ==
    \/ \E ts \in Timestamps, q \in FilterAttributes : ForTrajectory(ts, q)
    \/ ReturnFromRunFilter
    \/ ForSample
    \/ \E q \in FilterAttributes : Initialize(q)
    \/ RaiseNotImplemented
    \/ \E q \in FilterAttributes : Predict(q)
    \/ \E q \in FilterAttributes : Correct(q)
    \/ IfElapsed
    \/ Log
    \/ Save

SpecFilter == InitFilter /\ [][NextFilter]_vars

\* run_filter is in a trajectory: its filter exists
InTrajectory == run_filter # None /\ run_filter.i >= 1

\* What the loop of run_filter decides by itself, whatever the filter
\* does: predict is called only when quadrotor_model.initialized reads
\* true; RuntimeError ends a run under a false initialize_with_gt only,
\* and NameError a run with the global args unbound only, under a true
\* initialize_with_gt, on a filter that is not initialized and before the
\* initialize call of the sample.
RunFilter_PredictWhenInitialized ==
    InTrajectory =>
        /\ \A j \in 1..Len(run_filter.quadrotor_model.calls) :
               /\ run_filter.quadrotor_model.calls[j].op = "predict" =>
                      run_filter.quadrotor_model.calls[j].initialized
               /\ run_filter.quadrotor_model.calls[j].op = "initialize" =>
                      ~run_filter.quadrotor_model.calls[j].initialized
        /\ run_filter.pc = "NameError" =>
               /\ run_filter.module_args = None
               /\ run_filter.args.initialize_with_gt
               /\ ~run_filter.quadrotor_model.initialized
               /\ \A j \in 1..Len(run_filter.quadrotor_model.calls) :
                      run_filter.quadrotor_model.calls[j].k < run_filter.k
        /\ run_filter.pc = "RuntimeError" =>
               ~run_filter.args.initialize_with_gt
        /\ run_filter.module_args = None =>
               \A j \in 1..Len(run_filter.quadrotor_model.calls) :
                   run_filter.quadrotor_model.calls[j].op # "initialize"

\* ... a sample has one predict call at most; a correct call follows the
\* predict call of its sample, with the same measurement and dt, and every
\* predict call is followed by that correct call
RunFilter_PredictThenCorrect ==
    InTrajectory =>
        LET calls == run_filter.quadrotor_model.calls
        IN  /\ \A j1, j2 \in 1..Len(calls) :
                   (j1 < j2 /\ calls[j1].op = calls[j2].op) =>
                       calls[j1].k < calls[j2].k
            /\ \A j \in 1..Len(calls) :
                   /\ calls[j].op = "correct" =>
                          /\ j > 1
                          /\ calls[j - 1].op = "predict"
                          /\ calls[j - 1].k = calls[j].k
                          /\ calls[j - 1].m_k = calls[j].m_k
                          /\ calls[j - 1].dt = calls[j].dt
                   /\ calls[j].op = "predict" =>
                          IF j < Len(calls)
                          THEN calls[j + 1].op = "correct"
                          ELSE run_filter.pc = "correct"

\* ... and a call on sample k has the measurement of sample k and
\* dt = ts[k] - ts[k - 1] (0 on the first sample): positive from the
\* second sample on when the timestamps increase strictly
RunFilter_Dt ==
    InTrajectory =>
        LET calls == run_filter.quadrotor_model.calls
            ts == run_filter.traj_dict.ts
        IN  \A j \in 1..Len(calls) :
                /\ calls[j].m_k = Measurements(run_filter.traj_dict)[calls[j].k]
                /\ calls[j].dt = IF calls[j].k = 1 THEN 0
                                 ELSE ts[calls[j].k] - ts[calls[j].k - 1]
                /\ (StrictlyIncreasing(ts) /\ calls[j].k >= 2) => calls[j].dt > 0

\* Called by an importer with the global args unbound, under a true
\* initialize_with_gt and a constructor that leaves initialized false:
\* the first sample of the first trajectory ends in NameError, no call
\* has been made on the filter.
RunFilter_ImportedNameError ==
    /\ InTrajectory
    /\ run_filter.pc = "NameError"
    /\ run_filter.i = 1 /\ run_filter.k = 1
    /\ run_filter.quadrotor_model.calls = << >>

\* What rests on the filter.  A run as C19 describes it: the constructor
\* leaves initialized false, initialize sets it and predict and correct
\* leave it set; the second trajectory, three samples with increasing
\* timestamps that do not start at 0, all processed.
RunFilter_AsDescribed ==
    /\ InTrajectory
    /\ run_filter.module_args # None
    /\ run_filter.pc = "save"
    /\ run_filter.i = 2
    /\ run_filter.k = 3
    /\ StrictlyIncreasing(run_filter.traj_dict.ts)
    /\ run_filter.traj_dict.ts[1] # 0
    /\ Len(run_filter.quadrotor_model.calls) = 5
    /\ run_filter.quadrotor_model.calls[1].op = "initialize"
    /\ run_filter.quadrotor_model.calls[1].k = 1
    /\ run_filter.quadrotor_model.calls[4].op = "predict"
    /\ run_filter.quadrotor_model.calls[4].dt > 0

\* A constructor that leaves initialized true: predict is called on the
\* first sample, with dt = 0, under strictly increasing timestamps.
RunFilter_PredictOnFirstSample ==
    /\ InTrajectory
    /\ StrictlyIncreasing(run_filter.traj_dict.ts)
    /\ Len(run_filter.quadrotor_model.calls) >= 1
    /\ run_filter.quadrotor_model.calls[1].op = "predict"
    /\ run_filter.quadrotor_model.calls[1].k = 1
    /\ run_filter.quadrotor_model.calls[1].dt = 0

\* An initialize that leaves initialized false: the second sample
\* initializes again, and predict is not called on it.
RunFilter_InitializeAgain ==
    /\ InTrajectory
    /\ Len(run_filter.quadrotor_model.calls) >= 2
    /\ run_filter.quadrotor_model.calls[1].op = "initialize"
    /\ run_filter.quadrotor_model.calls[2].op = "initialize"
    /\ run_filter.quadrotor_model.calls[2].k = 2

\* with timestamps that do not increase, predict is called with dt <= 0
RunFilter_NonPositiveDt ==
    /\ InTrajectory
    /\ \E j \in 1..Len(run_filter.quadrotor_model.calls) :
           /\ run_filter.quadrotor_model.calls[j].op = "predict"
           /\ run_filter.quadrotor_model.calls[j].k >= 2
           /\ run_filter.quadrotor_model.calls[j].dt <= 0

\* C20 (as claimed): reset_incremental_jacobians changes U_ij, G_ij, B_ij,
\* Q_ij, P_i and P_j only and leaves A_ij, L_ij, Q_c, g_a and perturbation;
\* state_jacobian called after a reset and before the next evaluate
\* returns the matrix it returned before the reset, and covariance called
\* at that point returns the zero matrix.
C20_Frame ==
    /\ last'.op = "reset_incremental_jacobians" =>
           UNCHANGED <<A_ij, L_ij, Q_c, g_a, perturbation, status, x>>
    /\ last'.op = "state_jacobian" => last'.ret = A_ij /\ A_ij' = A_ij
C20_CovarianceZero ==
    (last.op = "covariance" /\ last.before = "reset_incremental_jacobians") =>
        /\ Compatible(L_ij, Q_ij)
        /\ last.ret = Zeros(15, 15)
C20_ResetFrame == [][C20_Frame]_vars /\ [](C20_CovarianceZero)

\* the frame alone, and the zero covariance once evaluate has given L_ij
\* its 15 x 15 shape
C20_FrameOnly == [][C20_Frame]_vars
C20_CovarianceZeroAfterEvaluate ==
    (last.op = "covariance" /\ last.before = "reset_incremental_jacobians"
       /\ Compatible(L_ij, Q_ij)) =>
        last.ret = Zeros(15, 15)

====
